---- MODULE Spec2Model ----
(***************************************************************************)
(* Model of the ereb telegraf input (src/ereb.go, the revision at lines    *)
(* 221-492): Gather fans out one goroutine per (endpoint, gather function) *)
(* pair, every goroutine fetches a JSON document through getJson and       *)
(* writes its records / its error to the accumulator, Gather joins them    *)
(* with a sync.WaitGroup.                                                  *)
(*                                                                         *)
(* Text is modelled as a sequence of one-character strings so that         *)
(* strings.HasPrefix, strings.TrimRight, strconv.Atoi and url.Parse are    *)
(* computed, not assumed.  Timestamps (time.Now) are left out of records.  *)
(***************************************************************************)
EXTENDS Integers, Sequences, FiniteSets, TLC

\* ------------------------------------------------------------------ bounds
MaxHist == 3        \* longest exit-code history in the exhaustive task set
MaxTasks == 2       \* longest task list in the exhaustive task set

\* ------------------------------------------------------------------- text
Digits == <<"0", "1", "2", "3", "4", "5", "6", "7", "8", "9">>

IsDigit(c) == \E d \in 1..10 : Digits[d] = c

DigitVal(c) == (CHOOSE d \in 1..10 : Digits[d] = c) - 1

IsHex(c) == IsDigit(c) \/ c \in {"a", "b", "c", "d", "e", "f"}

HasPrefix(s, p) == Len(s) >= Len(p) /\ SubSeq(s, 1, Len(p)) = p

HasSuffix(s, p) == Len(s) >= Len(p) /\ SubSeq(s, Len(s) - Len(p) + 1, Len(s)) = p

\* TrimRight dropping the suffix once, as strings.TrimSuffix does
TrimSuffix(s, cutset) ==
  IF HasSuffix(s, cutset) THEN SubSeq(s, 1, Len(s) - Len(cutset)) ELSE s

RECURSIVE TrimRight(_, _)
\* strings.TrimRight(s, cutset): drops every trailing character of cutset
TrimRight(s, cutset) ==
  IF Len(s) > 0 /\ (\E i \in 1..Len(cutset) : cutset[i] = s[Len(s)])
  THEN TrimRight(SubSeq(s, 1, Len(s) - 1), cutset)
  ELSE s

RECURSIVE DecVal(_)
\* value of a digit string, most significant digit first
DecVal(s) ==
  IF Len(s) = 0 THEN 0
  ELSE 10 * DecVal(SubSeq(s, 1, Len(s) - 1)) + DigitVal(s[Len(s)])

\* strconv.Atoi with the error dropped (intExitCode, _ := ...): an optional
\* sign followed by digits; anything else is a syntax error and yields 0.
\* Texts here are far shorter than the 19 digits a range error needs.
Atoi(s) ==
  LET signed == Len(s) > 0 /\ s[1] \in {"+", "-"}
      body == IF signed THEN SubSeq(s, 2, Len(s)) ELSE s
  IN IF Len(body) = 0 \/ (\E i \in 1..Len(body) : ~IsDigit(body[i])) THEN 0
     ELSE IF signed /\ s[1] = "-" THEN 0 - DecVal(body)
     ELSE DecVal(body)

\* url.Parse succeeds: of its failure modes the texts used here can only hit
\* the invalid escape (a "%" not followed by two hex digits) in host or path.
UrlOk(s) ==
  \A i \in 1..Len(s) :
    s[i] = "%" => (i + 2 <= Len(s) /\ IsHex(s[i + 1]) /\ IsHex(s[i + 2]))

RECURSIVE UpToSlash(_)
UpToSlash(s) ==
  IF Len(s) = 0 \/ s[1] = "/" THEN <<>>
  ELSE <<s[1]>> \o UpToSlash(Tail(s))

\* url.Parse(serverAddr).Host: the authority after "scheme://", up to the
\* next "/"; empty when the text has no "//" after the scheme.
UrlHost(s) ==
  LET colons == {i \in 1..Len(s) : s[i] = ":"}
  IN IF colons = {} THEN <<>>
     ELSE LET c == CHOOSE i \in colons : \A j \in colons : i <= j
              rest == SubSeq(s, c + 1, Len(s))
          IN IF HasPrefix(rest, <<"/", "/">>)
             THEN UpToSlash(SubSeq(rest, 3, Len(rest)))
             ELSE <<>>

\* ------------------------------------------------------- endpoint texts
HttpA == <<"h", "t", "t", "p", ":", "/", "/", "a">>

HttpB == <<"h", "t", "t", "p", ":", "/", "/", "b">>

\* "http://localhost:8888", the default appended by Gather
DefaultServer ==
  <<"h", "t", "t", "p", ":", "/", "/", "l", "o", "c", "a", "l", "h", "o", "s", "t",
    ":", "8", "8", "8", "8">>

\* "b:8" has no scheme, "http://%" does not parse, "httpd:8" is a host named
\* httpd with a port
NoScheme == <<"b", ":", "8">>

HostHttpd == <<"h", "t", "t", "p", "d", ":", "8">>

BadEscape == <<"h", "t", "t", "p", ":", "/", "/", "%">>

\* configured server lists the collector is started with
ServerLists ==
  { <<>>,
    <<HttpA>>,
    <<HttpA \o <<"/">>, HttpB>>,
    <<NoScheme, HttpA \o <<"/", "/">>>>,
    <<BadEscape>>,
    <<NoScheme>>,
    <<HostHttpd>>,
    <<BadEscape, HostHttpd>> }

\* the lists whose calls are followed to their end under fair scheduling:
\* all but the one with two healthy servers
FairLists == ServerLists \ { <<HttpA \o <<"/">>, HttpB>> }

StatusPath == <<"/", "s", "t", "a", "t", "u", "s">>

TasksPath == <<"/", "t", "a", "s", "k", "s">>

gatherFunctions == <<"gatherStatus", "gatherTasks">>

\* ------------------------------------------------------ JSON documents
None == <<"N", "o", "n", "e">>

\* ErebStatus{} and ErebTasks{}: the zero-valued decode targets
ZeroStatus == [State |-> "", NextRun |-> 0, NextTasks |-> 0]

ZeroTasks == <<>>

\* a task document; only the exit-code history and the name vary
Task(name, exitCodes) ==
  [Name |-> name, Enabled |-> TRUE, Timeout |-> <<"3", "0">>,
   Stats |-> [Success |-> 4, Error |-> 2, DurationAvg |-> 3,
              DurationMax |-> 5, DurationMin |-> 1, ExitCodes |-> exitCodes]]

\* /status documents a server may answer with
StatusDocs ==
  { [State |-> "running", NextRun |-> 5, NextTasks |-> 1],
    [State |-> "idle", NextRun |-> 7, NextTasks |-> 2] }

\* /tasks documents a server may answer with
TaskDocs ==
  { <<>>,
    <<Task("t1", <<>>), Task("t2", <<<<"1">>, <<"0">>, <<"2">>>>)>>,
    <<Task("t1", <<None, <<"-", "1">>>>)>> }

\* exit-code texts of the exhaustive task set: "None" and decimal integers
ExitCodeTexts == {None, <<"0">>, <<"1">>, <<"2">>, <<"3">>, <<"-", "1">>}

\* the two histories the specification works out by hand
ExampleHistories ==
  { <<<<"1">>, <<"0">>, <<"2">>, <<"3">>>>, <<None, <<"1">>, None, <<"2">>>> }

\* every exit-code history of at most MaxHist entries, and the examples
Histories == UNION {[1..n -> ExitCodeTexts] : n \in 0..MaxHist} \cup ExampleHistories

\* the exhaustive task set: the empty list, and the lists of at most MaxTasks
\* tasks whose first task has any history and whose other tasks all have no
\* history or all have a single failure
ExhaustiveTaskDocs ==
  { <<>> } \cup
  { [k \in 1..n |-> IF k = 1 THEN Task("t1", h) ELSE Task("t2", g)] :
      h \in Histories, g \in {<<>>, <<<<"1">>>>}, n \in 1..MaxTasks }

\* HTTP status codes a server may answer with
StatusCodes == {200, 201, 204, 500}

\* what one round trip can bring back: a transport error, or a status code
\* with a body that is a status document ("status"), a task list ("tasks"),
\* no well-formed JSON of the target's kind at all ("garbage"), a status
\* document whose next_run is a JSON string ("statusBadNextRun"), or a task
\* list whose timeouts are JSON numbers ("tasksBadTimeout")
Response(conn, code, body, status, tasks) ==
  [conn |-> conn, code |-> code, body |-> body, status |-> status, tasks |-> tasks]

ConnFailure == Response(FALSE, 0, "none", ZeroStatus, ZeroTasks)

\* server a is either failing with a 500 or healthy, server b is either down
\* or healthy; a healthy server has one fixed document per path
SteadyDocs ==
  { Response(TRUE, 200, "status", [State |-> "running", NextRun |-> 5, NextTasks |-> 1],
             ZeroTasks),
    Response(TRUE, 200, "tasks", ZeroStatus, <<Task("t1", <<>>)>>) }

SteadyResponses(host) ==
  IF host = <<"a">>
  THEN SteadyDocs \cup {Response(TRUE, 500, "garbage", ZeroStatus, ZeroTasks)}
  ELSE SteadyDocs \cup {ConnFailure}

\* every other server answers with any code and any body
AnyResponses ==
  { ConnFailure }
  \cup { Response(TRUE, c, "garbage", ZeroStatus, ZeroTasks) : c \in StatusCodes }
  \cup { Response(TRUE, 200, "status", d, ZeroTasks) : d \in StatusDocs }
  \cup { Response(TRUE, 200, "tasks", ZeroStatus, d) : d \in TaskDocs }
  \cup { Response(TRUE, 200, "statusBadNextRun",
                  [State |-> "running", NextRun |-> 0, NextTasks |-> 1], ZeroTasks),
         Response(TRUE, 200, "tasksBadTimeout", ZeroStatus, <<Task("t1", <<<<"1">>>>)>>) }

\* the schemes client.Do has a transport for; for any other it returns an
\* "unsupported protocol scheme" error without sending anything
SupportedScheme(url) ==
  \/ HasPrefix(url, <<"h", "t", "t", "p", ":", "/", "/">>)
  \/ HasPrefix(url, <<"h", "t", "t", "p", "s", ":", "/", "/">>)

\* the outcomes client.Do can have for a GET of url: /status is answered with
\* status documents and /tasks with task lists
Responses(url) ==
  { r \in (IF ~SupportedScheme(url)
               THEN {ConnFailure}
               ELSE IF UrlHost(url) \in {<<"a">>, <<"b">>}
               THEN SteadyResponses(UrlHost(url))
               ELSE AnyResponses) :
      \/ r.body \in {"none", "garbage"}
      \/ r.body \in {"status", "statusBadNextRun"} /\ HasSuffix(url, StatusPath)
      \/ r.body \in {"tasks", "tasksBadTimeout"} /\ HasSuffix(url, TasksPath) }

\* ------------------------------------------------------------- errors
NoErr == [kind |-> "nil", url |-> <<>>, code |-> 0]

ParseErr(url) == [kind |-> "parse", url |-> url, code |-> 0]

ConnErr(url) == [kind |-> "connect", url |-> url, code |-> 0]

StatusErr(url, code) == [kind |-> "status", url |-> url, code |-> code]

\* ------------------------------------------------- metric derivation
\* ScanStep without the reset on a zero exit code
ScanStepNoReset(lastErrorsCount, exitCode) ==
  IF exitCode # None /\ Atoi(exitCode) > 0 THEN lastErrorsCount + 1 ELSE lastErrorsCount

\* one exit code of the history, lines 412-420
ScanStep(lastErrorsCount, exitCode) ==
  IF exitCode # None
  THEN LET intExitCode == Atoi(exitCode)
       IN IF intExitCode > 0 THEN lastErrorsCount + 1
          ELSE IF intExitCode = 0 THEN 0
          ELSE lastErrorsCount
  ELSE lastErrorsCount

RECURSIVE ScanFrom(_, _)
\* the range loop over exitCodes, oldest first
ScanFrom(lastErrorsCount, exitCodes) ==
  IF Len(exitCodes) = 0 THEN lastErrorsCount
  ELSE ScanFrom(ScanStep(lastErrorsCount, Head(exitCodes)), Tail(exitCodes))

\* lastErrorsCount after lines 401-423
LastErrorsCount(exitCodes) ==
  IF Len(exitCodes) = 0 THEN 0 ELSE ScanFrom(0, exitCodes)

\* LastExitCode without the "-1" sentinel: the zero value of lastExitCode
LastExitCodeNoSentinel(exitCodes) ==
  IF Len(exitCodes) = 0 THEN <<>> ELSE exitCodes[Len(exitCodes)]

RECURSIVE LastExitCodeSkippingNone(_)
\* LastExitCode reporting the newest entry that is not "None"
LastExitCodeSkippingNone(exitCodes) ==
  IF Len(exitCodes) = 0 THEN <<"-", "1">>
  ELSE IF exitCodes[Len(exitCodes)] # None THEN exitCodes[Len(exitCodes)]
  ELSE LastExitCodeSkippingNone(SubSeq(exitCodes, 1, Len(exitCodes) - 1))

\* lastExitCode after lines 399-408
LastExitCode(exitCodes) ==
  IF Len(exitCodes) = 0 THEN <<"-", "1">> ELSE exitCodes[Len(exitCodes)]

\* the record gatherTasks adds for one task, lines 392-442
TaskRecord(serverAddr, task) ==
  [measurement |-> "ereb_tasks",
   tags |-> [hostname |-> UrlHost(serverAddr), task_tag |-> task.Name],
   fields |-> [task_name |-> task.Name,
               enabled |-> task.Enabled,
               success_count |-> task.Stats.Success,
               errors_count |-> task.Stats.Error,
               avg_duration |-> task.Stats.DurationAvg,
               max_duration |-> task.Stats.DurationMax,
               min_duration |-> task.Stats.DurationMin,
               timeout |-> Atoi(task.Timeout),
               last_exit_code |-> LastExitCode(task.Stats.ExitCodes),
               last_errors_count |-> LastErrorsCount(task.Stats.ExitCodes)]]

\* the record gatherStatus adds, lines 357-373
StatusRecord(serverAddr, erebStatus) ==
  [measurement |-> "ereb_status",
   tags |-> [hostname |-> UrlHost(serverAddr)],
   fields |-> [running |-> IF erebStatus.State = "running" THEN 1 ELSE 0,
               tasks_queue_length |-> erebStatus.NextTasks,
               next_run_in |-> erebStatus.NextRun]]

\* ---------------------------------------------------------------- state
VARIABLES
  Servers,     \* g.Servers
  client,      \* g.client: 0 is nil, n > 0 the n-th http.Client constructed
  nclients,    \* number of http.Client values constructed so far
  clientsUsed, \* the clients that requests have been sent through so far
  gpc,         \* where Gather is: "idle", "launch", "returned"
  endpoints,   \* Gather's local endpoints slice
  launched,    \* go statements executed by the launch loops
  wg,          \* the WaitGroup counter
  unit,        \* the goroutines of this call, keyed <<endpoint index, function index>>
  accFields,   \* acc.AddFields calls of this call's accumulator, per calling goroutine
  accErrors,   \* acc.AddError calls of this call's accumulator, per calling goroutine
  other        \* a second Gather call on the same collector, up to its launch loops

vars ==
  <<Servers, client, nclients, clientsUsed, gpc, endpoints, launched, wg, unit, accFields,
    accErrors, other>>

Units == DOMAIN unit

NoUnits == [u \in {} |-> 0]

\* a Gather call that has not begun: entry is g.Servers as line 310 finds it
NoCall == [pc |-> "idle", entry |-> <<>>, endpoints |-> <<>>, launched |-> 0]

\* ---------------------------------------------------------------- Gather
RECURSIVE Normalize(_)
\* the filter loop, lines 314-325
Normalize(servers) ==
  IF Len(servers) = 0 THEN <<>>
  ELSE LET endpoint == Head(servers)
       IN IF HasPrefix(endpoint, <<"h", "t", "t", "p">>)
          THEN <<IF HasSuffix(endpoint, <<"/">>)
                 THEN TrimRight(endpoint, <<"/">>)
                 ELSE endpoint>> \o Normalize(Tail(servers))
          ELSE Normalize(Tail(servers))

\* WgAdd counting the endpoints only
WgAddEndpoints(eps) == Len(eps)

\* WgAdd counting one goroutine more than the loops launch
WgAddOneTooMany(eps) == Len(eps) * Len(gatherFunctions) + 1

\* the argument of wg.Add, line 330
WgAdd(eps) == Len(eps) * Len(gatherFunctions)

\* the loop variable server of line 333 while or after the loops run
LoopServer ==
  LET i == (launched \div Len(gatherFunctions)) + 1
  IN IF i <= Len(endpoints) THEN endpoints[i] ELSE endpoints[Len(endpoints)]

\* UnitServer reading the loop variable, as a closure over server does
UnitServerLoopVar(u) == LoopServer

\* the server address a goroutine hands to its gather function, line 337
UnitServer(u) == unit[u].serv

\* the URL a gather function fetches, lines 352 and 383
RequestUrl(gf, serverAddr) ==
  IF gf = "gatherStatus" THEN serverAddr \o StatusPath ELSE serverAddr \o TasksPath

\* a goroutine right after its go statement
NewUnit(serv, gf) ==
  [pc |-> "start", serv |-> serv, gf |-> gf, reqs |-> <<>>, code |-> 0, body |-> "none",
   err |-> NoErr,
   erebStatus |-> ZeroStatus, erebTasks |-> ZeroTasks, idx |-> 1]

\* EffectiveServers appending the default to whatever is configured
EffectiveServersAlwaysAppend(servers) == Append(servers, DefaultServer)

\* g.Servers after lines 310-312
EffectiveServers(servers) ==
  IF Len(servers) = 0 THEN Append(servers, DefaultServer) ELSE servers

\* Gather up to the launch loops, lines 309-332, on a fresh accumulator
GatherStart ==
  /\ gpc \in {"idle", "returned"}
  /\ LET servers == EffectiveServers(Servers)
     IN /\ Servers' = servers
        /\ endpoints' = Normalize(servers)
        /\ wg' = WgAdd(Normalize(servers))
  /\ gpc' = "launch"
  /\ launched' = 0
  /\ unit' = NoUnits
  /\ accFields' = NoUnits
  /\ accErrors' = NoUnits
  /\ UNCHANGED <<other, client, nclients, clientsUsed>>

\* one go statement of the nested loops, lines 333-343
GatherLaunch ==
  /\ gpc = "launch"
  /\ launched < Len(endpoints) * Len(gatherFunctions)
  /\ LET i == (launched \div Len(gatherFunctions)) + 1
         j == (launched % Len(gatherFunctions)) + 1
         u == <<i, j>>
     IN /\ unit' = [v \in Units \cup {u} |->
                      IF v = u THEN NewUnit(endpoints[i], gatherFunctions[j]) ELSE unit[v]]
        /\ accFields' = [v \in Units \cup {u} |-> IF v = u THEN <<>> ELSE accFields[v]]
        /\ accErrors' = [v \in Units \cup {u} |-> IF v = u THEN <<>> ELSE accErrors[v]]
  /\ launched' = launched + 1
  /\ UNCHANGED <<other, Servers, client, nclients, clientsUsed, gpc, endpoints, wg>>

\* wg.Wait() lets Gather through and Gather returns nil, lines 345-346
GatherReturn ==
  /\ gpc = "launch"
  /\ launched = Len(endpoints) * Len(gatherFunctions)
  /\ wg = 0
  /\ gpc' = "returned"
  /\ UNCHANGED <<other, Servers, client, nclients, clientsUsed, endpoints, launched, wg, unit,
                 accFields, accErrors>>

\* ---------------------------------------------------------------- getJson
\* the nil check of line 451
UnitCheckClient(u) ==
  /\ unit[u].pc = "start"
  /\ unit' = [unit EXCEPT ![u].pc = IF client = 0 THEN "construct" ELSE "parse"]
  /\ UNCHANGED <<other, Servers, client, nclients, clientsUsed, gpc, endpoints, launched, wg,
                 accFields, accErrors>>

\* the construction and the assignment to g.client, lines 452-457
UnitConstruct(u) ==
  /\ unit[u].pc = "construct"
  /\ nclients' = nclients + 1
  /\ client' = nclients + 1
  /\ unit' = [unit EXCEPT ![u].pc = "parse"]
  /\ UNCHANGED <<other, Servers, clientsUsed, gpc, endpoints, launched, wg, accFields, accErrors>>

\* UnitParseFail with the error dropped: getJson returns nil and the gather
\* function goes on with the zero target
UnitParseFailSwallowed(u) ==
  LET requestUrl == RequestUrl(unit[u].gf, UnitServer(u))
  IN /\ unit[u].pc = "parse"
     /\ ~UrlOk(requestUrl)
     /\ unit' = [unit EXCEPT ![u].pc = "extract"]
     /\ UNCHANGED <<other, Servers, client, nclients, clientsUsed, gpc, endpoints, launched, wg,
                    accFields, accErrors>>

\* url.Parse fails and getJson returns the error, lines 460-463
UnitParseFail(u) ==
  LET requestUrl == RequestUrl(unit[u].gf, UnitServer(u))
  IN /\ unit[u].pc = "parse"
     /\ ~UrlOk(requestUrl)
     /\ unit' = [unit EXCEPT ![u].pc = "report", ![u].err = ParseErr(requestUrl)]
     /\ UNCHANGED <<other, Servers, client, nclients, clientsUsed, gpc, endpoints, launched, wg,
                    accFields, accErrors>>

\* the request goes out through g.client as read at line 471, lines 460-471
UnitRequest(u) ==
  LET requestUrl == RequestUrl(unit[u].gf, UnitServer(u))
  IN /\ unit[u].pc = "parse"
     /\ UrlOk(requestUrl)
     /\ unit' = [unit EXCEPT ![u].pc = "waiting", ![u].reqs = Append(@, requestUrl)]
     /\ clientsUsed' = clientsUsed \cup {client}
     /\ UNCHANGED <<other, Servers, client, nclients, gpc, endpoints, launched, wg,
                    accFields, accErrors>>

\* StatusOk accepting every 2xx code
StatusOkAny2xx(code) == code \in 200..299

\* the status test of line 476
StatusOk(code) == code = 200

\* the bodies json Decode returns an error for
DecodeFails(body) == body \in {"garbage", "statusBadNextRun", "tasksBadTimeout"}

\* json Decode into the target, line 483: a body of the target's shape fills
\* it; a field of the wrong JSON type is skipped, keeps its zero value, and
\* the rest of the document is decoded; anything else leaves the zero value
DecodeStatus(r) ==
  IF r.body = "status" THEN r.status
  ELSE IF r.body = "statusBadNextRun" THEN [r.status EXCEPT !.NextRun = 0]
  ELSE ZeroStatus

DecodeTasks(r) ==
  IF r.body = "tasks" THEN r.tasks
  ELSE IF r.body = "tasksBadTimeout"
  THEN [k \in 1..Len(r.tasks) |-> [r.tasks[k] EXCEPT !.Timeout = <<>>]]
  ELSE ZeroTasks

\* DecodeErr handing Decode's error back to the gather function
DecodeErrSurfaced(r, url) ==
  IF DecodeFails(r.body) THEN [kind |-> "decode", url |-> url, code |-> 0] ELSE NoErr

\* what getJson returns after Decode, lines 483-485: Decode's result is
\* dropped and nil is returned
DecodeErr(r, url) == NoErr

\* where a gather function goes on after getJson returned err, lines 353-355
\* and 384-386
Continue(err) == IF err = NoErr THEN "extract" ELSE "report"

\* UnitResponse sending the request once more after a first failure
UnitResponseRetrying(u) ==
  /\ unit[u].pc = "waiting"
  /\ LET requestUrl == unit[u].reqs[Len(unit[u].reqs)]
     IN \E r \in Responses(requestUrl) :
          unit' =
               IF (~r.conn \/ ~StatusOk(r.code)) /\ Len(unit[u].reqs) < 2
               THEN [unit EXCEPT ![u].pc = "parse"]
               ELSE IF ~r.conn
               THEN [unit EXCEPT ![u].pc = "report", ![u].err = ConnErr(requestUrl)]
               ELSE IF ~StatusOk(r.code)
               THEN [unit EXCEPT ![u].pc = "report", ![u].code = r.code,
                                 ![u].err = StatusErr(requestUrl, r.code)]
               ELSE IF unit[u].gf = "gatherStatus"
               THEN [unit EXCEPT ![u].pc = Continue(DecodeErr(r, requestUrl)),
                                 ![u].code = r.code, ![u].body = r.body,
                                 ![u].err = DecodeErr(r, requestUrl),
                                 ![u].erebStatus = DecodeStatus(r)]
               ELSE [unit EXCEPT ![u].pc = Continue(DecodeErr(r, requestUrl)),
                                 ![u].code = r.code, ![u].body = r.body,
                                 ![u].err = DecodeErr(r, requestUrl),
                                 ![u].erebTasks = DecodeTasks(r)]
  /\ UNCHANGED <<other, Servers, client, nclients, clientsUsed, gpc, endpoints, launched, wg,
                 accFields, accErrors>>

\* client.Do returns and getJson finishes, lines 471-485
UnitResponse(u) ==
  /\ unit[u].pc = "waiting"
  /\ LET requestUrl == unit[u].reqs[Len(unit[u].reqs)]
     IN \E r \in Responses(requestUrl) :
          unit' =
               IF ~r.conn
               THEN [unit EXCEPT ![u].pc = "report", ![u].err = ConnErr(requestUrl)]
               ELSE IF ~StatusOk(r.code)
               THEN [unit EXCEPT ![u].pc = "report", ![u].code = r.code,
                                 ![u].err = StatusErr(requestUrl, r.code)]
               ELSE IF unit[u].gf = "gatherStatus"
               THEN [unit EXCEPT ![u].pc = Continue(DecodeErr(r, requestUrl)),
                                 ![u].code = r.code, ![u].body = r.body,
                                 ![u].err = DecodeErr(r, requestUrl),
                                 ![u].erebStatus = DecodeStatus(r)]
               ELSE [unit EXCEPT ![u].pc = Continue(DecodeErr(r, requestUrl)),
                                 ![u].code = r.code, ![u].body = r.body,
                                 ![u].err = DecodeErr(r, requestUrl),
                                 ![u].erebTasks = DecodeTasks(r)]
  /\ UNCHANGED <<other, Servers, client, nclients, clientsUsed, gpc, endpoints, launched, wg,
                 accFields, accErrors>>

\* ------------------------------------------------------- gather functions
\* UnitGatherStatus holding its record back until every goroutine of the call
\* is launched and none is still fetching
UnitGatherStatusBatched(u) ==
  /\ unit[u].pc = "extract"
  /\ unit[u].gf = "gatherStatus"
  /\ launched = Len(endpoints) * Len(gatherFunctions)
  /\ \A v \in Units : unit[v].pc \notin {"start", "construct", "parse", "waiting"}
  /\ accFields' = [accFields EXCEPT
                     ![u] = Append(@, StatusRecord(UnitServer(u), unit[u].erebStatus))]
  /\ unit' = [unit EXCEPT ![u].pc = "exit"]
  /\ UNCHANGED <<other, Servers, client, nclients, clientsUsed, gpc, endpoints, launched, wg,
                 accErrors>>

\* gatherStatus after a successful fetch, lines 357-375: url.Parse of line
\* 357 yields a nil URL when it fails, and u.Host of line 359 then panics
UnitGatherStatus(u) ==
  /\ unit[u].pc = "extract"
  /\ unit[u].gf = "gatherStatus"
  /\ IF UrlOk(UnitServer(u))
     THEN /\ accFields' = [accFields EXCEPT
                             ![u] = Append(@, StatusRecord(UnitServer(u), unit[u].erebStatus))]
          /\ unit' = [unit EXCEPT ![u].pc = "exit"]
     ELSE /\ accFields' = accFields
          /\ unit' = [unit EXCEPT ![u].pc = "panic"]
  /\ UNCHANGED <<other, Servers, client, nclients, clientsUsed, gpc, endpoints, launched, wg, accErrors>>

\* UnitGatherTasksIter giving up with an error after the record of a task
\* whose last runs failed
UnitGatherTasksIterAborting(u) ==
  LET task == unit[u].erebTasks[unit[u].idx]
  IN /\ unit[u].pc = "extract"
     /\ unit[u].gf = "gatherTasks"
     /\ unit[u].idx <= Len(unit[u].erebTasks)
     /\ accFields' = [accFields EXCEPT ![u] = Append(@, TaskRecord(UnitServer(u), task))]
     /\ unit' = IF LastErrorsCount(task.Stats.ExitCodes) > 0
                THEN [unit EXCEPT ![u].pc = "report",
                                  ![u].err = [kind |-> "task", url |-> <<>>, code |-> 0]]
                ELSE [unit EXCEPT ![u].idx = @ + 1]
     /\ UNCHANGED <<other, Servers, client, nclients, clientsUsed, gpc, endpoints, launched, wg,
                    accErrors>>

\* one iteration of gatherTasks' loop over erebTasks, lines 391-443: u.Host
\* of line 394 panics on the nil URL of a failed url.Parse at line 388
UnitGatherTasksIter(u) ==
  /\ unit[u].pc = "extract"
  /\ unit[u].gf = "gatherTasks"
  /\ unit[u].idx <= Len(unit[u].erebTasks)
  /\ IF UrlOk(UnitServer(u))
     THEN /\ accFields' = [accFields EXCEPT
                             ![u] = Append(@, TaskRecord(UnitServer(u),
                                                         unit[u].erebTasks[unit[u].idx]))]
          /\ unit' = [unit EXCEPT ![u].idx = @ + 1]
     ELSE /\ accFields' = accFields
          /\ unit' = [unit EXCEPT ![u].pc = "panic"]
  /\ UNCHANGED <<other, Servers, client, nclients, clientsUsed, gpc, endpoints, launched, wg, accErrors>>

\* gatherTasks leaves its loop and returns, line 445
UnitGatherTasksEnd(u) ==
  /\ unit[u].pc = "extract"
  /\ unit[u].gf = "gatherTasks"
  /\ unit[u].idx > Len(unit[u].erebTasks)
  /\ unit' = [unit EXCEPT ![u].pc = "exit"]
  /\ UNCHANGED <<other, Servers, client, nclients, clientsUsed, gpc, endpoints, launched, wg,
                 accFields, accErrors>>

\* Reported dropping the error, as a goroutine that ignores gf's result does
ReportedNothing(err) == <<>>

\* what the goroutine does with a non-nil error, lines 337-340
Reported(err) == <<err>>

\* the gather function returned an error and the goroutine reports it
UnitReport(u) ==
  /\ unit[u].pc = "report"
  /\ accErrors' = [accErrors EXCEPT ![u] = @ \o Reported(unit[u].err)]
  /\ unit' = [unit EXCEPT ![u].pc = "exit"]
  /\ UNCHANGED <<other, Servers, client, nclients, clientsUsed, gpc, endpoints, launched, wg, accFields>>

\* the deferred wg.Done(), line 336
UnitDone(u) ==
  /\ unit[u].pc = "exit"
  /\ wg' = wg - 1
  /\ unit' = [unit EXCEPT ![u].pc = "done"]
  /\ UNCHANGED <<other, Servers, client, nclients, clientsUsed, gpc, endpoints, launched,
                 accFields, accErrors>>

\* ------------------------------------------------------------ behaviours
Init ==
  /\ Servers \in ServerLists
  /\ client = 0
  /\ nclients = 0
  /\ clientsUsed = {}
  /\ gpc = "idle"
  /\ endpoints = <<>>
  /\ launched = 0
  /\ wg = 0
  /\ unit = NoUnits
  /\ accFields = NoUnits
  /\ accErrors = NoUnits
  /\ other = NoCall

Next ==
  \/ GatherStart
  \/ GatherLaunch
  \/ GatherReturn
  \/ \E u \in Units : UnitCheckClient(u)
  \/ \E u \in Units : UnitConstruct(u)
  \/ \E u \in Units : UnitParseFail(u)
  \/ \E u \in Units : UnitRequest(u)
  \/ \E u \in Units : UnitResponse(u)
  \/ \E u \in Units : UnitGatherStatus(u)
  \/ \E u \in Units : UnitGatherTasksIter(u)
  \/ \E u \in Units : UnitGatherTasksEnd(u)
  \/ \E u \in Units : UnitReport(u)
  \/ \E u \in Units : UnitDone(u)

Spec == Init /\ [][Next]_vars

\* gatherTasks on the exhaustive task set: the default endpoint's /tasks fetch
\* has just decoded a task list, its /status fetch failed to connect
InitTasks ==
  LET st == <<1, 1>>
      ts == <<1, 2>>
      stReq == DefaultServer \o StatusPath
      tsReq == DefaultServer \o TasksPath
  IN /\ Servers = <<DefaultServer>>
     /\ client = 1
     /\ nclients = 1
     /\ clientsUsed = {1}
     /\ gpc = "launch"
     /\ endpoints = <<DefaultServer>>
     /\ launched = 2
     /\ wg = 1
     /\ \E doc \in ExhaustiveTaskDocs :
          unit = [u \in {st, ts} |->
                   IF u = st
                   THEN [NewUnit(DefaultServer, "gatherStatus") EXCEPT
                           !.pc = "done", !.reqs = <<stReq>>, !.err = ConnErr(stReq)]
                   ELSE [NewUnit(DefaultServer, "gatherTasks") EXCEPT
                           !.pc = "extract", !.reqs = <<tsReq>>, !.code = 200,
                           !.erebTasks = doc]]
     /\ accFields = [u \in {st, ts} |-> <<>>]
     /\ accErrors = [u \in {st, ts} |-> IF u = st THEN <<ConnErr(stReq)>> ELSE <<>>]
     /\ other = NoCall

NextTasks ==
  \/ \E u \in Units : UnitGatherTasksIter(u)
  \/ \E u \in Units : UnitGatherTasksEnd(u)
  \/ \E u \in Units : UnitDone(u)
  \/ GatherReturn

SpecTasks == InitTasks /\ [][NextTasks]_vars

\* some step of goroutine u
UnitStep(u) ==
  \/ UnitCheckClient(u)
  \/ UnitConstruct(u)
  \/ UnitParseFail(u)
  \/ UnitRequest(u)
  \/ UnitResponse(u)
  \/ UnitGatherStatus(u)
  \/ UnitGatherTasksIter(u)
  \/ UnitGatherTasksEnd(u)
  \/ UnitReport(u)
  \/ UnitDone(u)

\* a step of the call in progress: of Gather itself or of a goroutine
CallStep ==
  \/ GatherLaunch
  \/ GatherReturn
  \/ \E u \in Units : UnitStep(u)

\* the scheduler does not stop a call in progress for good: as long as the
\* call has a step to take, one is taken. client.Do returns at the latest
\* when the client's 30 s timeout of line 455 expires. Nothing obliges
\* telegraf to call Gather again
InitFair == Init /\ Servers \in FairLists

FairSpec == InitFair /\ [][Next]_vars /\ WF_vars(CallStep)

\* ------------------------------------------------- two overlapping calls
\* the first call of Gather, statement by statement up to its launch loops,
\* next to a second call on the same collector
\* the test of line 310
GatherCheck ==
  /\ gpc = "idle"
  /\ gpc' = IF Len(Servers) = 0 THEN "append" ELSE "filter"
  /\ UNCHANGED <<Servers, client, nclients, clientsUsed, endpoints, launched, wg, unit,
                 accFields, accErrors, other>>

\* the append and the assignment to g.Servers, line 311
GatherAppend ==
  /\ gpc = "append"
  /\ Servers' = Append(Servers, DefaultServer)
  /\ gpc' = "filter"
  /\ UNCHANGED <<client, nclients, clientsUsed, endpoints, launched, wg, unit,
                 accFields, accErrors, other>>

\* the filter loop over g.Servers and wg.Add, lines 314-332
GatherFilter ==
  /\ gpc = "filter"
  /\ endpoints' = Normalize(Servers)
  /\ wg' = WgAdd(Normalize(Servers))
  /\ launched' = 0
  /\ gpc' = "launch"
  /\ UNCHANGED <<Servers, client, nclients, clientsUsed, unit, accFields, accErrors, other>>

\* the second call's test of line 310
OtherCheck ==
  /\ other.pc = "idle"
  /\ other' = [other EXCEPT !.pc = IF Len(Servers) = 0 THEN "append" ELSE "filter",
                            !.entry = Servers]
  /\ UNCHANGED <<Servers, client, nclients, clientsUsed, gpc, endpoints, launched, wg, unit,
                 accFields, accErrors>>

\* the second call's line 311
OtherAppend ==
  /\ other.pc = "append"
  /\ Servers' = Append(Servers, DefaultServer)
  /\ other' = [other EXCEPT !.pc = "filter"]
  /\ UNCHANGED <<client, nclients, clientsUsed, gpc, endpoints, launched, wg, unit,
                 accFields, accErrors>>

\* the second call's lines 314-332
OtherFilter ==
  /\ other.pc = "filter"
  /\ other' = [other EXCEPT !.pc = "launch", !.endpoints = Normalize(Servers)]
  /\ UNCHANGED <<Servers, client, nclients, clientsUsed, gpc, endpoints, launched, wg, unit,
                 accFields, accErrors>>

\* one go statement of the second call's launch loops, lines 333-343
OtherLaunch ==
  /\ other.pc = "launch"
  /\ other.launched < Len(other.endpoints) * Len(gatherFunctions)
  /\ other' = [other EXCEPT !.launched = @ + 1]
  /\ UNCHANGED <<Servers, client, nclients, clientsUsed, gpc, endpoints, launched, wg, unit,
                 accFields, accErrors>>

NextOverlap ==
  \/ GatherCheck
  \/ GatherAppend
  \/ GatherFilter
  \/ GatherLaunch
  \/ OtherCheck
  \/ OtherAppend
  \/ OtherFilter
  \/ OtherLaunch

SpecOverlap == Init /\ [][NextOverlap]_vars

\* ------------------------------------------------- exit-code history claims
\* the records gatherTasks has added so far, as <<goroutine, position>>
TaskEmissions ==
  {<<u, k>> \in Units \X (1..(MaxTasks + 1)) :
     unit[u].gf = "gatherTasks" /\ k <= Len(accFields[u])}

\* the exit-code history behind an emitted task record
HistoryOf(e) == unit[e[1]].erebTasks[e[2]].Stats.ExitCodes

FieldsOf(e) == accFields[e[1]][e[2]].fields

IsZeroExit(exitCode) == exitCode # None /\ Atoi(exitCode) = 0

IsNonZeroExit(exitCode) == exitCode # None /\ Atoi(exitCode) # 0

RECURSIVE SpecifiedScan(_, _)
\* the scan as specified: "None" leaves the counter, a nonzero value
\* increments it, zero resets it
SpecifiedScan(count, h) ==
  IF Len(h) = 0 THEN count
  ELSE SpecifiedScan(IF IsNonZeroExit(Head(h)) THEN count + 1
                     ELSE IF IsZeroExit(Head(h)) THEN 0
                     ELSE count, Tail(h))

\* the glossary's count: non-zero outcomes after the last zero outcome
SuffixCount(h) ==
  LET zeros == {i \in 1..Len(h) : IsZeroExit(h[i])}
      lastZero == IF zeros = {} THEN 0 ELSE CHOOSE i \in zeros : \A j \in zeros : j <= i
  IN Cardinality({i \in 1..Len(h) : i > lastZero /\ IsNonZeroExit(h[i])})

\* C4: every emitted task record carries as last_errors_count the result of
\* the specified scan of its history (nonzero increments, zero resets, "None"
\* is skipped), negative exit codes included
C4_ScanAsSpecified ==
  \A e \in TaskEmissions :
    FieldsOf(e).last_errors_count = SpecifiedScan(0, HistoryOf(e))

\* C5: every emitted task record carries as last_errors_count the number of
\* non-zero outcomes after the last zero outcome of its history
C5_ScanIsSuffixCount ==
  \A e \in TaskEmissions :
    FieldsOf(e).last_errors_count = SuffixCount(HistoryOf(e))

\* gatherTasks is past its loop
TasksLoopOver(u) == unit[u].gf = "gatherTasks" /\ unit[u].pc \in {"exit", "done"}

\* C6: a task with an empty history gets its record, with last_exit_code "-1"
\* and last_errors_count 0; the loop then goes on, so that a gatherTasks that
\* fetched its list ends with one record per task and no error
C6_EmptyHistory ==
  /\ \A e \in TaskEmissions :
       HistoryOf(e) = <<>> =>
         /\ FieldsOf(e).last_exit_code = <<"-", "1">>
         /\ FieldsOf(e).last_errors_count = 0
  /\ \A u \in Units :
       /\ unit[u].gf = "gatherTasks" /\ unit[u].pc = "extract" =>
            Len(accFields[u]) = unit[u].idx - 1
       /\ TasksLoopOver(u) /\ unit[u].code = 200 =>
            /\ Len(accFields[u]) = Len(unit[u].erebTasks)
            /\ unit[u].err = NoErr
            /\ accErrors[u] = <<>>

\* an empty-history task followed by another task, both with their records
C6_Witness ==
  \E u \in Units :
    /\ TasksLoopOver(u)
    /\ Len(unit[u].erebTasks) = 2
    /\ unit[u].erebTasks[1].Stats.ExitCodes = <<>>
    /\ Len(accFields[u]) = 2
    /\ accFields[u][1].fields.last_exit_code = <<"-", "1">>

\* C7: a record whose history is non-empty and ends in a zero exit code has
\* last_errors_count 0
C7_EndsInZero ==
  \A e \in TaskEmissions :
    LET h == HistoryOf(e)
    IN Len(h) > 0 /\ IsZeroExit(h[Len(h)]) => FieldsOf(e).last_errors_count = 0

\* failures, then a success: the record of ["1", "2", "0"]
C7_Witness ==
  \E e \in TaskEmissions :
    /\ HistoryOf(e) = <<<<"1">>, <<"2">>, <<"0">>>>
    /\ FieldsOf(e).last_errors_count = 0

\* C8: a record whose history is non-empty and all "None" has
\* last_errors_count 0 and last_exit_code "None"
C8_AllNone ==
  \A e \in TaskEmissions :
    LET h == HistoryOf(e)
    IN Len(h) > 0 /\ (\A i \in 1..Len(h) : h[i] = None) =>
         /\ FieldsOf(e).last_errors_count = 0
         /\ FieldsOf(e).last_exit_code = None

\* the record of ["None", "None"]
C8_Witness ==
  \E e \in TaskEmissions :
    /\ HistoryOf(e) = <<None, None>>
    /\ FieldsOf(e).last_exit_code = None
    /\ FieldsOf(e).last_errors_count = 0

\* ------------------------------------------------------- fan-out claims
\* the (endpoint, gather function) pairs of the current call
Pairs == (1..Len(endpoints)) \X (1..Len(gatherFunctions))

\* the records a goroutine's gather function adds for the target it decoded
ExpectedFields(u) ==
  IF unit[u].gf = "gatherStatus"
  THEN <<StatusRecord(endpoints[u[1]], unit[u].erebStatus)>>
  ELSE [k \in 1..Len(unit[u].erebTasks) |->
          TaskRecord(endpoints[u[1]], unit[u].erebTasks[k])]

Failed(u) == unit[u].err # NoErr

\* a goroutine whose gather function returned: all its AddFields are made
Finished(u) == unit[u].pc \in {"exit", "done"}

\* C1: when Gather has returned, every pair has its goroutine, and every
\* goroutine has called wg.Done with its error reported or its records added
C1_Barrier ==
  gpc = "returned" =>
    /\ Units = Pairs
    /\ \A u \in Units :
         /\ unit[u].pc = "done"
         /\ Failed(u) => accErrors[u] = <<unit[u].err>>
         /\ ~Failed(u) => Len(accFields[u]) = Len(ExpectedFields(u))

\* Gather returned from a call with two endpoints
C1_Witness ==
  /\ gpc = "returned"
  /\ Len(endpoints) = 2
  /\ \E u \in Units : Failed(u)
  /\ \E u \in Units : ~Failed(u) /\ Len(accFields[u]) > 0

\* C2: a goroutine whose gather function failed reports exactly that one
\* error and adds no record; one whose gather function succeeded reports
\* nothing and adds exactly the records of its own document, whatever the
\* other goroutines did; and no goroutine short of wg.Done is ever held up
C2_ErrorIsolation ==
  \A u \in Units :
    /\ Finished(u) /\ Failed(u) => accErrors[u] = <<unit[u].err>> /\ accFields[u] = <<>>
    /\ Finished(u) /\ ~Failed(u) => accErrors[u] = <<>> /\ accFields[u] = ExpectedFields(u)
    /\ ~Finished(u) => Len(accErrors[u]) = 0
    /\ unit[u].pc # "done" => ENABLED UnitStep(u)

\* /tasks of the first endpoint failed, its /status and the second endpoint's
\* two fetches succeeded, and Gather returned
C2_Witness ==
  /\ gpc = "returned"
  /\ Len(endpoints) = 2
  /\ Failed(<<1, 2>>) /\ Len(accErrors[<<1, 2>>]) = 1
  /\ \A u \in {<<1, 1>>, <<2, 1>>, <<2, 2>>} :
       ~Failed(u) /\ Len(accFields[u]) = 1 /\ accErrors[u] = <<>>

\* C3: the goroutine of pair <<i, j>> runs the j-th gather function against
\* the i-th endpoint: it sends at most one request, to that endpoint's
\* /status or /tasks, tags its records with that endpoint's host, and when
\* Gather returns every pair has had exactly its one goroutine
C3_CrossProduct ==
  /\ Units \subseteq Pairs
  /\ launched = Cardinality(Units)
  /\ \A u \in Units :
       LET e == endpoints[u[1]]
           path == IF u[2] = 1 THEN StatusPath ELSE TasksPath
       IN /\ unit[u].gf = gatherFunctions[u[2]]
          /\ Len(unit[u].reqs) <= 1
          /\ \A k \in 1..Len(unit[u].reqs) : unit[u].reqs[k] = e \o path
          /\ unit[u].pc \in {"waiting", "extract"} => Len(unit[u].reqs) = 1
          /\ \A k \in 1..Len(accFields[u]) :
               accFields[u][k].tags.hostname = UrlHost(e)
          /\ \A k \in 1..Len(accErrors[u]) : accErrors[u][k].url = e \o path
  /\ gpc = "returned" => Units = Pairs

\* two endpoints, each asked once for /status and once for /tasks
C3_Witness ==
  /\ gpc = "returned"
  /\ endpoints = <<HttpA, HttpB>>
  /\ \A u \in Pairs : Len(unit[u].reqs) = 1
  /\ unit[<<1, 2>>].reqs[1] = HttpA \o TasksPath
  /\ unit[<<2, 1>>].reqs[1] = HttpB \o StatusPath

\* C9: at most one http.Client is ever constructed and all requests of the
\* goroutines go through the same client
C9_SingleClient ==
  /\ nclients <= 1
  /\ Cardinality(clientsUsed) <= 1

\* C10: a response with a status code other than 200 makes the fetch fail
\* with a status error, which is the goroutine's only report, and no record
\* is added; a response with status code 200 produces no error
C10_Only200 ==
  \A u \in Units :
    /\ unit[u].code \notin {0, 200} =>
         /\ unit[u].err = StatusErr(unit[u].reqs[1], unit[u].code)
         /\ accFields[u] = <<>>
         /\ Finished(u) => accErrors[u] = <<unit[u].err>>
    /\ unit[u].code = 200 => unit[u].err = NoErr /\ accErrors[u] = <<>>

\* a 204 and a 200 in the same call, both goroutines through
C10_Witness ==
  /\ \E u \in Units :
       unit[u].code = 204 /\ unit[u].pc = "done" /\ Len(accErrors[u]) = 1
  /\ \E u \in Units :
       unit[u].code = 200 /\ unit[u].pc = "done" /\ Len(accFields[u]) > 0


\* ------------------------------------------------------- failure claims
\* C11: a goroutine that has an error to report, or has reported one, has
\* added no record; in particular gatherTasks never leaves some task records
\* behind and then fails
C11_NoPartialOutput ==
  \A u \in Units :
    Failed(u) \/ unit[u].pc = "report" \/ Len(accErrors[u]) > 0 => accFields[u] = <<>>

\* a gatherTasks that got a 500, reported it and added nothing, next to a
\* gatherStatus of the same endpoint that added its record
C11_Witness ==
  \E i \in 1..Len(endpoints) :
    /\ {<<i, 1>>, <<i, 2>>} \subseteq Units
    /\ unit[<<i, 2>>].pc = "done"
    /\ unit[<<i, 2>>].code = 500
    /\ Len(accErrors[<<i, 2>>]) = 1
    /\ accFields[<<i, 2>>] = <<>>
    /\ Len(accFields[<<i, 1>>]) = 1

\* C12: no goroutine panics; once every goroutine has called wg.Done Gather
\* can return; and when Gather has returned from a call in which every one of
\* the N goroutines failed, the accumulator holds no record and N errors, one
\* per goroutine
C12_NoErrorFatal ==
  /\ \A u \in Units : unit[u].pc # "panic"
  /\ (gpc = "launch" /\ launched = WgAdd(endpoints) /\ \A u \in Units : unit[u].pc = "done")
       => ENABLED GatherReturn
  /\ (gpc = "returned" /\ \A u \in Units : Failed(u))
       => /\ Cardinality(Units) = WgAdd(endpoints)
          /\ \A u \in Units : accFields[u] = <<>> /\ Len(accErrors[u]) = 1

\* Gather returned from a call with two endpoints in which all four
\* goroutines failed, by a 500 and by a refused connection
C12_Witness ==
  /\ gpc = "returned"
  /\ Cardinality(Units) = 4
  /\ \A u \in Units : Failed(u) /\ Len(accErrors[u]) = 1 /\ accFields[u] = <<>>
  /\ \E u \in Units : unit[u].err.kind = "status"
  /\ \E u \in Units : unit[u].err.kind = "connect"

\* ------------------------------------------------------ endpoint claims
\* C13: every endpoint Gather launches goroutines for begins with "http://"
\* or "https://", and no goroutine runs against, sends a request for, or
\* reports anything about an address that does not
C13_SchemeFilter ==
  /\ \A i \in 1..Len(endpoints) : SupportedScheme(endpoints[i])
  /\ \A u \in Units :
       /\ SupportedScheme(unit[u].serv)
       /\ \A k \in 1..Len(unit[u].reqs) : SupportedScheme(unit[u].reqs[k])
       /\ \A k \in 1..Len(accErrors[u]) : SupportedScheme(accErrors[u][k].url)

\* the configured entries the filter of line 318 lets through, in order
Accepted == SelectSeq(Servers, LAMBDA e : HasPrefix(e, <<"h", "t", "t", "p">>))

\* e without one trailing "/"
StripOne(e) == IF HasSuffix(e, <<"/">>) THEN SubSeq(e, 1, Len(e) - 1) ELSE e

\* e without its trailing "/"s: its longest prefix that does not end in "/"
StripAll(e) ==
  LET keep == {k \in 0..Len(e) : k = 0 \/ e[k] # "/"}
  IN SubSeq(e, 1, CHOOSE k \in keep : \A j \in keep : j <= k)

\* the request URLs of the goroutines are those of the endpoints eps
RequestsFollow(eps) ==
  \A u \in Units :
    \A k \in 1..Len(unit[u].reqs) :
      unit[u].reqs[k] = eps[u[1]] \o (IF u[2] = 1 THEN StatusPath ELSE TasksPath)

\* C14 as stated: the effective endpoint of an accepted entry is the entry
\* without a single trailing "/", and the requests go to these
C14_StripsSingleSlash ==
  gpc # "idle" =>
    /\ endpoints = [i \in 1..Len(Accepted) |-> StripOne(Accepted[i])]
    /\ RequestsFollow([i \in 1..Len(Accepted) |-> StripOne(Accepted[i])])

\* C14: the effective endpoint of an accepted entry is the entry without any
\* of its trailing "/"s and is the entry itself when it has none; no
\* effective endpoint ends in "/"; an entry e followed by one "/" yields e;
\* and the requests go to these endpoints
C14_StripsTrailingSlashes ==
  gpc # "idle" =>
    /\ endpoints = [i \in 1..Len(Accepted) |-> StripAll(Accepted[i])]
    /\ \A i \in 1..Len(endpoints) :
         /\ ~HasSuffix(endpoints[i], <<"/">>)
         /\ ~HasSuffix(Accepted[i], <<"/">>) => endpoints[i] = Accepted[i]
         /\ Accepted[i] = StripOne(Accepted[i]) \o <<"/">>
              /\ ~HasSuffix(StripOne(Accepted[i]), <<"/">>)
              => endpoints[i] = StripOne(Accepted[i])
    /\ RequestsFollow([i \in 1..Len(Accepted) |-> StripAll(Accepted[i])])

\* "http://a//" was configured and its goroutines asked "http://a" for
\* /status and /tasks
C14_Witness ==
  /\ gpc = "returned"
  /\ Accepted = <<HttpA \o <<"/", "/">>>>
  /\ endpoints = <<HttpA>>
  /\ unit[<<1, 1>>].reqs = <<HttpA \o StatusPath>>
  /\ unit[<<1, 2>>].reqs = <<HttpA \o TasksPath>>

\* ------------------------------------------------------- lifecycle claims
\* C15 as stated: no step of a Gather call changes g.Servers
C15_ServersUntouched == [][Servers' = Servers]_vars

\* C15: no step changes a non-empty g.Servers; an empty g.Servers stays empty
\* or becomes the list holding just the default server, and only the step
\* that begins a Gather call does that; g.client, once set, only ever changes
\* by a goroutine's assignment of line 457
C15_OnlyDefaultPersists ==
  [][/\ Servers # <<>> => Servers' = Servers
     /\ Servers = <<>> => Servers' \in {<<>>, <<DefaultServer>>}
     /\ Servers' # Servers => gpc \in {"idle", "returned"} /\ gpc' = "launch"
     /\ client' # client => \E u \in Units : unit[u].pc = "construct"]_vars

\* Gather has returned from a call that began with nothing configured: the
\* default has stayed behind in g.Servers and the client is cached
C15_Witness ==
  /\ gpc = "returned"
  /\ Servers = <<DefaultServer>>
  /\ client # 0

\* C16: a goroutine sends at most one request in a call; one whose fetch has
\* failed is reporting the error or is past that, is not waiting for a
\* response, and a failure of the request itself leaves exactly the one
\* request behind
C16_NoRetry ==
  \A u \in Units :
    /\ Len(unit[u].reqs) <= 1
    /\ unit[u].pc \in {"start", "construct", "parse"} => unit[u].reqs = <<>>
    /\ Failed(u) => unit[u].pc \in {"report", "exit", "done"}
    /\ unit[u].err.kind \in {"connect", "status"} => Len(unit[u].reqs) = 1
    /\ unit[u].err.kind = "parse" => unit[u].reqs = <<>>

\* a goroutine whose request was refused has finished with that one request
\* sent, while a goroutine launched after it is still to send its own
C16_Witness ==
  \E u, v \in Units :
    /\ unit[u].err.kind = "connect"
    /\ unit[u].pc = "done"
    /\ Len(unit[u].reqs) = 1
    /\ unit[v].pc = "parse"

\* C17 as stated: after a 200 whose body failed to decode the goroutine has
\* no error, reports none, and its gather function works on the zero target:
\* gatherStatus adds the record of the zero status, gatherTasks adds nothing
C17_ZeroTargetOnDecodeFailure ==
  \A u \in Units :
    unit[u].code = 200 /\ DecodeFails(unit[u].body) =>
      /\ unit[u].err = NoErr
      /\ accErrors[u] = <<>>
      /\ unit[u].erebStatus = ZeroStatus
      /\ unit[u].erebTasks = ZeroTasks
      /\ Finished(u) =>
           accFields[u] = IF unit[u].gf = "gatherStatus"
                          THEN <<StatusRecord(unit[u].serv, ZeroStatus)>>
                          ELSE <<>>

\* C17: after a 200 whose body failed to decode the goroutine has no error,
\* reports none, and its gather function works on what Decode left in the
\* target. For a body that is no JSON of the target's kind that is the zero
\* target: gatherStatus adds one record with running 0, tasks_queue_length 0
\* and next_run_in 0, gatherTasks adds nothing. For a document with a field
\* of the wrong type it is the document with that field zero: gatherStatus
\* adds one record with next_run_in 0, gatherTasks one record per task with
\* timeout 0
C17_DecodeFailureSwallowed ==
  \A u \in Units :
    unit[u].code = 200 /\ DecodeFails(unit[u].body) =>
      /\ unit[u].err = NoErr
      /\ unit[u].pc # "report"
      /\ accErrors[u] = <<>>
      /\ Finished(u) => accFields[u] = ExpectedFields(u)
      /\ unit[u].body = "garbage" =>
           /\ unit[u].erebStatus = ZeroStatus
           /\ unit[u].erebTasks = ZeroTasks
           /\ Finished(u) /\ unit[u].gf = "gatherStatus" =>
                /\ Len(accFields[u]) = 1
                /\ accFields[u][1].fields =
                     [running |-> 0, tasks_queue_length |-> 0, next_run_in |-> 0]
           /\ unit[u].gf = "gatherTasks" => accFields[u] = <<>>
      /\ unit[u].body = "statusBadNextRun" =>
           /\ unit[u].erebStatus.NextRun = 0
           /\ Finished(u) => Len(accFields[u]) = 1 /\ accFields[u][1].fields.next_run_in = 0
      /\ unit[u].body = "tasksBadTimeout" =>
           /\ \A k \in 1..Len(accFields[u]) : accFields[u][k].fields.timeout = 0
           /\ Finished(u) => Len(accFields[u]) = Len(unit[u].erebTasks)

\* one call in which gatherStatus got a status document with a mistyped
\* next_run and reported the server running, gatherTasks got a body that is
\* no JSON and added nothing, and neither reported an error
C17_Witness ==
  /\ gpc = "returned"
  /\ Units = {<<1, 1>>, <<1, 2>>}
  /\ unit[<<1, 1>>].body = "statusBadNextRun"
  /\ accFields[<<1, 1>>][1].fields =
       [running |-> 1, tasks_queue_length |-> 1, next_run_in |-> 0]
  /\ unit[<<1, 2>>].body = "garbage" /\ unit[<<1, 2>>].code = 200
  /\ accFields[<<1, 2>>] = <<>>
  /\ accErrors[<<1, 1>>] = <<>> /\ accErrors[<<1, 2>>] = <<>>

\* ----------------------------------------------------- concurrency claims
\* C18: two overlapping first calls of Gather do not interfere: g.Servers is
\* what was configured or the one default, never a list with the default
\* twice; the second call's endpoints are those of the list it found on
\* entry, and it launches no more goroutines than two for each of them; and
\* both calls, begun on the same configuration, work on the same endpoints
C18_Reentrant ==
  /\ Servers \in ServerLists \cup {<<DefaultServer>>}
  /\ other.pc = "launch" =>
       /\ other.endpoints = Normalize(EffectiveServers(other.entry))
       /\ other.launched <= WgAdd(Normalize(EffectiveServers(other.entry)))
  /\ gpc = "launch" /\ other.pc = "launch" => endpoints = other.endpoints

\* C19: the WaitGroup counter is always the number of goroutines of the call
\* that have not yet called wg.Done, so each calls it exactly once; and under
\* fair scheduling a call of Gather that has reached its launch loops returns,
\* with every pair's goroutine launched and through and the counter at zero
C19_Termination ==
  /\ [](gpc # "idle" =>
          wg = WgAdd(endpoints) - Cardinality({u \in Units : unit[u].pc = "done"}))
  /\ (gpc = "launch") ~>
       (/\ gpc = "returned"
        /\ wg = 0
        /\ Units = Pairs
        /\ \A u \in Units : unit[u].pc = "done")

\* Gather returned from a call in which the filter left no endpoint
C19_Witness ==
  /\ gpc = "returned"
  /\ Servers = <<NoScheme>>
  /\ endpoints = <<>>
  /\ Units = {}
  /\ wg = 0

\* the step by which a gather function that has its document adds a record
\* or returns
EmitStep(u) ==
  \/ UnitGatherStatus(u)
  \/ UnitGatherTasksIter(u)
  \/ UnitGatherTasksEnd(u)

\* C20: a goroutine adds its records during its own run: whatever the other
\* goroutines are doing and whether or not the launch loops or the wait are
\* over, a gather function holding its document can take its next AddFields
\* step, gatherTasks has added a record for every task it has been through,
\* a gather function that has returned without error has all its records in
\* the accumulator, and a goroutine past its gather function can call wg.Done
C20_EagerEmission ==
  \A u \in Units :
    /\ unit[u].pc = "extract" => ENABLED EmitStep(u)
    /\ unit[u].pc = "extract" /\ unit[u].gf = "gatherTasks" =>
         Len(accFields[u]) = unit[u].idx - 1
    /\ unit[u].pc = "exit" => ENABLED UnitDone(u)
    /\ Finished(u) /\ ~Failed(u) /\ gpc = "launch" => accFields[u] = ExpectedFields(u)

\* gatherTasks of the first endpoint, launched second, has its record in the
\* accumulator and is through, while gatherStatus of the same endpoint,
\* launched first, still waits for its response and Gather waits for both
C20_Witness ==
  /\ gpc = "launch"
  /\ {<<1, 1>>, <<1, 2>>} \subseteq Units
  /\ unit[<<1, 1>>].pc = "waiting"
  /\ accFields[<<1, 1>>] = <<>>
  /\ unit[<<1, 2>>].pc = "done"
  /\ Len(accFields[<<1, 2>>]) > 0

====
